---- MODULE Spec2Model ----
(***************************************************************************)
(* Model of the NVO lab scripts:                                           *)
(*   Labs/Lab 2/scale.py       CPU-threshold autoscaler (OpenStack, SSH,   *)
(*                             CSV registry)                               *)
(*   Labs/Lab 4/get_metrics.py CloudWatch metric helper                    *)
(*   Labs/Lab 4/obj5.4.py      CPU monitor that stops and replaces EC2     *)
(*                             instances                                   *)
(* Three specifications share the variables below:                         *)
(*   Spec          the autoscale_controller loop of scale.py               *)
(*   SpecRegistry  append_instance_registry called on any registry file    *)
(*   SpecMonitor   main of obj5.4.py with get_cpu_util of get_metrics.py   *)
(***************************************************************************)
EXTENDS Integers, Sequences, FiniteSets, TLC

(***************************************************************************)
(* Program constants of scale.py                                           *)
(***************************************************************************)
INSTANCE_PREFIX == "auto_vm_"
MAX_INSTANCES == 4
CPU_THRESHOLD == 10
POLL_INTERVAL == 5
SSH_USER == "cirros"
SSH_PASS == "gocubsgo"

(***************************************************************************)
(* Bounds of the model                                                     *)
(***************************************************************************)
\* seconds of wall-clock time explored after the controller starts
Horizon == 5
\* how many times an operator restarts a terminated controller
MaxRestarts == 1
\* rows of the registry file seeded by hand before the controller starts
MaxSeedRows == 4
\* calls of append_instance_registry explored by SpecRegistry
MaxAppends == 3
\* create_instances calls explored by SpecMonitor
MaxCreates == 2
\* EC2 instances running when the monitor starts
MaxRunning == 3

\* time.time() is seconds since 1970: far more than one POLL_INTERVAL
StartTime == POLL_INTERVAL
MaxTime == StartTime + Horizon

VARIABLES
    csv_file,          \* the file CSV_FILE: [exists, data], data a sequence of written pieces
    pc,                \* position of autoscale_controller
    instances,         \* local: rows returned by read_instance_registry
    fetched,           \* metric fetches of the current poll cycle, in order
    scale_required,    \* local of autoscale_controller
    last_scale_time,   \* local of autoscale_controller
    now,               \* the wall clock read by time.time()
    new_index,         \* local of autoscale_controller
    pending,           \* (name, ip) returned by provision_instance, not yet registered
    requested,         \* names passed to conn.compute.create_server, in order
    cycle_calls,       \* provision_instance calls of the current poll cycle
    in_window,         \* whether the cooldown test of line 192 read a time inside the cooldown window
    restarts,          \* restarts of the controller so far
    appended,          \* SpecRegistry: rows passed to append_instance_registry, in order
    initial_file,      \* SpecRegistry: the registry file before the first append
    mpc,               \* position of main of obj5.4.py
    running,           \* number of EC2 instances in state running
    monitored,         \* local `instances` of main: how many running instances it holds
    scanned,           \* how many of them the for loop of line 80 has handled
    mfetch,            \* the last get_cpu_util call: its outcome, its value, whether it raised
    stop_calls,        \* i.stop() calls so far
    create_calls,      \* ec2.create_instances calls so far
    alerts             \* SNS alerts published so far

vars == <<csv_file, pc, instances, fetched, scale_required, last_scale_time, now,
          new_index, pending, requested, cycle_calls, in_window, restarts,
          appended, initial_file,
          mpc, running, monitored, scanned, mfetch, stop_calls, create_calls, alerts>>

scalerVars == <<pc, instances, fetched, scale_required, last_scale_time, now,
                new_index, pending, requested, cycle_calls, in_window, restarts>>
registryVars == <<appended, initial_file>>
monitorVars == <<mpc, running, monitored, scanned, mfetch, stop_calls, create_calls, alerts>>

Min(a, b) == IF a < b THEN a ELSE b

(***************************************************************************)
(* The registry file.  Its content is the sequence of pieces written to    *)
(* it: a text piece is one CSV record (its fields), "crlf" is the csv      *)
(* writer's line terminator and "lf" the bare "\n" of line 97.             *)
(***************************************************************************)
Text(fields) == [kind |-> "text", fields |-> fields]
CRLF == [kind |-> "crlf", fields |-> <<>>]
LF == [kind |-> "lf", fields |-> <<>>]

FIELDNAMES == <<"name", "ip", "username", "password">>

\* csv.DictWriter.writeheader / writerow: the record, then "\r\n"
WriteHeader(data) == data \o <<Text(FIELDNAMES), CRLF>>
WriteRow(data, name, ip) == data \o <<Text(<<name, ip, SSH_USER, SSH_PASS>>), CRLF>>

\* The lines of the file as the csv reader sees them (universal newlines:
\* "\r\n" and "\n" both end a line); a line is the fields of its record,
\* <<>> for a blank line.  An unterminated last record is a line too.
RECURSIVE SplitLines(_, _, _)
SplitLines(data, cur, acc) ==
    IF data = <<>>
    THEN IF cur = <<>> THEN acc ELSE Append(acc, cur)
    ELSE IF Head(data).kind = "text"
         THEN SplitLines(Tail(data), cur \o Head(data).fields, acc)
         ELSE SplitLines(Tail(data), <<>>, Append(acc, cur))

Lines(data) == SplitLines(data, <<>>, <<>>)

\* csv.DictReader: one row as a dict keyed by the field names (missing
\* values are None; a later duplicate key wins)
RowDict(fieldnames, row) ==
    [k \in {fieldnames[i] : i \in 1..Len(fieldnames)} |->
        LET i == CHOOSE j \in 1..Len(fieldnames) :
                    /\ fieldnames[j] = k
                    /\ \A l \in 1..Len(fieldnames) : fieldnames[l] = k => l <= j
        IN IF i <= Len(row) THEN row[i] ELSE "None"]

RECURSIVE DictRows(_, _)
DictRows(fieldnames, lines) ==
    IF lines = <<>> THEN <<>>
    ELSE IF Head(lines) = <<>> THEN DictRows(fieldnames, Tail(lines))
    ELSE <<RowDict(fieldnames, Head(lines))>> \o DictRows(fieldnames, Tail(lines))

\* read_instance_registry: the first line gives the field names, every
\* later non-blank line is a row; a missing file gives no rows
read_instance_registry(f) ==
    IF ~f.exists THEN <<>>
    ELSE LET lines == Lines(f.data)
         IN IF lines = <<>> THEN <<>>
            ELSE DictRows(Head(lines), Tail(lines))

\* append_instance_registry
append_instance_registry(f, name, ip) ==
    LET file_exists == f.exists
        d0 == IF f.exists THEN f.data ELSE <<>>
        d1 == IF Len(d0) > 0 THEN Append(d0, LF) ELSE d0
        d2 == IF ~file_exists THEN WriteHeader(d1) ELSE d1
    IN [exists |-> TRUE, data |-> WriteRow(d2, name, ip)]

(***************************************************************************)
(* Registry files the controller may find when it starts                   *)
(***************************************************************************)
SeedName(i) == "manual_" \o ToString(i)
SeedAddr(i) == "192.168.0." \o ToString(i)

RECURSIVE SeedRows(_)
SeedRows(k) == IF k = 0 THEN <<>> ELSE WriteRow(SeedRows(k - 1), SeedName(k), SeedAddr(k))

\* header and k rows, every line terminated
SeedFile(k) == [exists |-> TRUE, data |-> WriteHeader(<<>>) \o SeedRows(k)]
\* the same, the last line left unterminated (a file edited by hand)
Unterminated(f) == [exists |-> TRUE, data |-> SubSeq(f.data, 1, Len(f.data) - 1)]
MissingFile == [exists |-> FALSE, data |-> <<>>]
EmptyFile == [exists |-> TRUE, data |-> <<>>]

\* what append_instance_registry leaves when it is called k times on an
\* existing empty file
RECURSIVE AppendedToEmpty(_)
AppendedToEmpty(k) ==
    IF k = 0 THEN EmptyFile
    ELSE append_instance_registry(AppendedToEmpty(k - 1), SeedName(k), SeedAddr(k))

InitialFiles ==
    {MissingFile}
    \cup {SeedFile(k) : k \in 0..MaxSeedRows}
    \cup {Unterminated(SeedFile(k)) : k \in 0..1}
    \cup {AppendedToEmpty(k) : k \in 0..2}

(***************************************************************************)
(* Metric fetch of scale.py                                                *)
(***************************************************************************)
\* what the SSH session gives: an exception, output without "N% idle", or
\* output with an idle percentage
IdleReadings == {89, 90}
RemoteOutcomes ==
    {[kind |-> "ssh_error", idle |-> 0], [kind |-> "no_match", idle |-> 0]}
    \cup {[kind |-> "idle", idle |-> i] : i \in IdleReadings}

get_remote_cpu_percent(o) ==
    IF o.kind = "idle" THEN 100 - o.idle ELSE 0

(***************************************************************************)
(* Decisions of autoscale_controller                                       *)
(***************************************************************************)
\* line 166, the cap test
\* (variant: the comparison written > instead of >=)
AtCap_Strict(instance_count) == instance_count > MAX_INSTANCES
AtCap(instance_count) == instance_count >= MAX_INSTANCES

\* line 171
\* (variant: the flag initialised True)
ScaleRequiredInit_True == TRUE
ScaleRequiredInit == FALSE

\* line 184
\* (variant: a reading equal to the threshold counted as a breach)
Breach_Inclusive(cpu) == cpu >= CPU_THRESHOLD
Breach(cpu) == cpu > CPU_THRESHOLD

\* line 192
\* (variant: last_scale_time left out of the test)
CooldownElapsed_NoLast(t, last) == t >= POLL_INTERVAL
CooldownElapsed(t, last) == t - last >= POLL_INTERVAL

\* line 193
\* (variant: the index not advanced past the registered instances)
NewIndex_NoIncrement(instance_count) == instance_count
NewIndex(instance_count) == instance_count + 1

\* line 128
InstanceName(index) == INSTANCE_PREFIX \o ToString(index)

\* the steps of provision_instance at which the control plane may fail
ProvisionOutcomes ==
    {"ok", "lookup_failed", "create_server_failed", "wait_for_server_failed",
     "create_ip_failed", "no_port", "update_ip_failed"}
\* failures met before conn.compute.create_server is called
BeforeCreate == {"lookup_failed"}

\* floating addresses the control plane hands out
Addresses == {"172.24.4.10", "172.24.4.11"}

(***************************************************************************)
(* autoscale_controller                                                    *)
(***************************************************************************)
instance_count == Len(instances)

ScalerInit ==
    /\ pc = "load"
    /\ instances = <<>>
    /\ fetched = <<>>
    /\ scale_required = FALSE
    /\ last_scale_time = 0
    /\ now = StartTime
    /\ new_index = 0
    /\ pending = <<>>
    /\ requested = <<>>
    /\ cycle_calls = 0
    /\ in_window = FALSE
    /\ restarts = 0

RegistryIdle == appended = <<>> /\ initial_file = MissingFile

MonitorIdle ==
    /\ mpc = "idle"
    /\ running = 0
    /\ monitored = 0
    /\ scanned = 0
    /\ mfetch = [outcome |-> "none", raised |-> FALSE, value |-> 0]
    /\ stop_calls = 0
    /\ create_calls = 0
    /\ alerts = 0

Init ==
    /\ csv_file \in InitialFiles
    /\ ScalerInit
    /\ RegistryIdle
    /\ MonitorIdle

\* An uncaught exception ends the process: its locals are gone
Terminate ==
    /\ pc' = "terminated"
    /\ instances' = <<>>
    /\ fetched' = <<>>
    /\ scale_required' = FALSE
    /\ last_scale_time' = 0
    /\ new_index' = 0
    /\ pending' = <<>>
    /\ cycle_calls' = 0
    /\ in_window' = FALSE

\* lines 163-171: load the registry; at the cap sleep, otherwise start the scan.
\* Any error of open/read other than FileNotFoundError leaves the function.
LoadRegistry ==
    /\ UNCHANGED <<registryVars, monitorVars>>
    /\ pc = "load"
    /\ \E io_error \in BOOLEAN :
        IF io_error
        THEN Terminate
        ELSE /\ instances' = read_instance_registry(csv_file)
             /\ fetched' = <<>>
             /\ cycle_calls' = 0
             /\ in_window' = FALSE
             /\ IF AtCap(Len(instances'))
                THEN pc' = "sleep" /\ UNCHANGED scale_required
                ELSE /\ scale_required' = ScaleRequiredInit
                     /\ pc' = IF instances' = <<>> THEN "decide" ELSE "scan"
             /\ UNCHANGED <<last_scale_time, new_index, pending>>
    /\ UNCHANGED <<csv_file, now, requested, restarts>>

\* lines 173-189: one iteration of the for loop
FetchMetric ==
    /\ UNCHANGED <<registryVars, monitorVars>>
    /\ pc = "scan"
    /\ LET inst == instances[Len(fetched) + 1]
       IN IF ~({"ip", "username", "password", "name"} \subseteq DOMAIN inst)
          THEN \* KeyError
               Terminate
          ELSE /\ \E o \in RemoteOutcomes :
                  LET cpu == get_remote_cpu_percent(o)
                  IN /\ fetched' = Append(fetched,
                                    [name |-> inst["name"], outcome |-> o.kind, cpu |-> cpu])
                     /\ IF Breach(cpu)
                        THEN scale_required' = TRUE /\ pc' = "decide"
                        ELSE /\ UNCHANGED scale_required
                             /\ pc' = IF Len(fetched') = Len(instances)
                                      THEN "decide" ELSE "scan"
               /\ UNCHANGED <<instances, last_scale_time, new_index, pending,
                              cycle_calls, in_window>>
    /\ UNCHANGED <<csv_file, now, requested, restarts>>

\* lines 192-194 and 200-201: the cooldown test
Decide ==
    /\ UNCHANGED <<registryVars, monitorVars>>
    /\ pc = "decide"
    /\ in_window' = (now - last_scale_time < POLL_INTERVAL)
    /\ IF scale_required /\ CooldownElapsed(now, last_scale_time)
       THEN /\ new_index' = NewIndex(instance_count)
            /\ pc' = "provision"
       ELSE /\ UNCHANGED new_index
            /\ pc' = "sleep"
    /\ UNCHANGED <<csv_file, instances, fetched, scale_required, last_scale_time,
                   now, pending, requested, cycle_calls, restarts>>

\* line 196: provision_instance(new_index), lines 120-151.  Nothing catches
\* an exception of the control plane, so it leaves autoscale_controller.
Provision ==
    /\ UNCHANGED <<registryVars, monitorVars>>
    /\ pc = "provision"
    /\ \E outcome \in ProvisionOutcomes, ip \in Addresses :
        LET name == InstanceName(new_index)
        IN /\ requested' = IF outcome \in BeforeCreate
                           THEN requested ELSE Append(requested, name)
           /\ IF outcome = "ok"
              THEN /\ pending' = <<name, ip>>
                   /\ pc' = "append"
                   /\ cycle_calls' = cycle_calls + 1
                   /\ UNCHANGED <<instances, fetched, scale_required, last_scale_time,
                                  new_index, in_window>>
              ELSE Terminate
    /\ UNCHANGED <<csv_file, now, restarts>>

\* lines 197-199: register the instance and restart the cooldown
Register ==
    /\ UNCHANGED <<registryVars, monitorVars>>
    /\ pc = "append"
    /\ \E io_error \in BOOLEAN :
        IF io_error
        THEN Terminate /\ UNCHANGED csv_file
        ELSE /\ csv_file' = append_instance_registry(csv_file, pending[1], pending[2])
             /\ last_scale_time' = now
             /\ pc' = "sleep"
             /\ UNCHANGED <<instances, fetched, scale_required, new_index, pending,
                            cycle_calls, in_window>>
    /\ UNCHANGED <<now, requested, restarts>>

\* lines 168 and 203: time.sleep(POLL_INTERVAL)
Sleep ==
    /\ UNCHANGED <<registryVars, monitorVars>>
    /\ pc = "sleep"
    /\ now + POLL_INTERVAL <= MaxTime
    /\ now' = now + POLL_INTERVAL
    /\ pc' = "load"
    /\ UNCHANGED <<csv_file, instances, fetched, scale_required, last_scale_time,
                   new_index, pending, requested, cycle_calls, in_window, restarts>>

\* the SSH sessions and the control-plane calls take time
TimePasses ==
    /\ UNCHANGED <<registryVars, monitorVars>>
    /\ pc \in {"scan", "provision"}
    /\ now < MaxTime
    /\ now' = now + 1
    /\ UNCHANGED <<csv_file, pc, instances, fetched, scale_required, last_scale_time,
                   new_index, pending, requested, cycle_calls, in_window, restarts>>

\* time.time() is the wall clock, which the system may set back (here:
\* while the controller sleeps)
ClockSetBack ==
    /\ UNCHANGED <<registryVars, monitorVars>>
    /\ pc = "sleep"
    /\ \E t \in StartTime..(now - 1) : now' = t
    /\ UNCHANGED <<csv_file, pc, instances, fetched, scale_required, last_scale_time,
                   new_index, pending, requested, cycle_calls, in_window, restarts>>

\* lines 209-210: the script is started again on the same registry file
Restart ==
    /\ UNCHANGED <<registryVars, monitorVars>>
    /\ pc = "terminated"
    /\ restarts < MaxRestarts
    /\ restarts' = restarts + 1
    /\ pc' = "load"
    /\ UNCHANGED <<csv_file, instances, fetched, scale_required, last_scale_time, now,
                   new_index, pending, requested, cycle_calls, in_window>>

Next ==
    \/ LoadRegistry
    \/ FetchMetric
    \/ Decide
    \/ Provision
    \/ Register
    \/ Sleep
    \/ TimePasses
    \/ ClockSetBack
    \/ Restart

Spec == Init /\ [][Next]_vars

(***************************************************************************)
(* append_instance_registry called on its own                              *)
(***************************************************************************)
\* the registry file before the first call: missing, existing but empty, or
\* holding a header and rows (its last line terminated or not)
RegistryInitialFiles ==
    {MissingFile, EmptyFile}
    \cup {SeedFile(k) : k \in 0..2}
    \cup {Unterminated(SeedFile(k)) : k \in 0..2}

RegistryNames == {InstanceName(1), InstanceName(2)}

RegistryInit ==
    /\ csv_file \in RegistryInitialFiles
    /\ initial_file = csv_file
    /\ appended = <<>>
    /\ ScalerInit
    /\ MonitorIdle

AppendCall ==
    /\ Len(appended) < MaxAppends
    /\ \E name \in RegistryNames, ip \in Addresses :
        /\ csv_file' = append_instance_registry(csv_file, name, ip)
        /\ appended' = Append(appended, <<name, ip>>)
    /\ UNCHANGED <<initial_file, scalerVars, monitorVars>>

RegistryNext == AppendCall

SpecRegistry == RegistryInit /\ [][RegistryNext]_vars

(***************************************************************************)
(* Labs/Lab 4: get_metrics.py and main of obj5.4.py                        *)
(***************************************************************************)
\* CPU_THRESHOLD of obj5.4.py (its default value)
MONITOR_CPU_THRESHOLD == 10

\* what cloudwatch.get_metric_statistics gives: an exception (transport,
\* authentication), no datapoint, or a latest average
Averages == {5, 10, 50}
MetricOutcomes ==
    {[kind |-> "client_error", avg |-> 0], [kind |-> "no_datapoints", avg |-> 0]}
    \cup {[kind |-> "datapoint", avg |-> a] : a \in Averages}

\* fetch_metric: "N/A" without datapoints, else the latest average; an
\* exception of the client is not caught
fetch_metric(o) ==
    CASE o.kind = "client_error" -> [raised |-> TRUE, na |-> FALSE, value |-> 0]
      [] o.kind = "no_datapoints" -> [raised |-> FALSE, na |-> TRUE, value |-> 0]
      [] OTHER -> [raised |-> FALSE, na |-> FALSE, value |-> o.avg]

\* get_cpu_util: cpu if cpu != "N/A" else 0.0
get_cpu_util(o) ==
    LET cpu == fetch_metric(o)
    IN [outcome |-> o.kind,
        raised |-> cpu.raised,
        value |-> IF cpu.na THEN 0 ELSE cpu.value]

MonitorBreach(cpu) == cpu >= MONITOR_CPU_THRESHOLD

\* get_two_running_instances: the first two running instances
get_two_running_instances(n) == Min(n, 2)

MonitorInit ==
    /\ mpc = "select"
    /\ running \in 0..MaxRunning
    /\ monitored = 0
    /\ scanned = 0
    /\ mfetch = [outcome |-> "none", raised |-> FALSE, value |-> 0]
    /\ stop_calls = 0
    /\ create_calls = 0
    /\ alerts = 0
    /\ csv_file = MissingFile
    /\ ScalerInit
    /\ RegistryIdle

\* lines 123-125: the handler of the loop logs the exception and sleeps
Handler == mpc' = "sleep"

\* lines 73-78
Select ==
    /\ mpc = "select"
    /\ \E raises \in BOOLEAN :
        IF raises
        THEN Handler /\ UNCHANGED <<monitored, scanned>>
        ELSE /\ monitored' = get_two_running_instances(running)
             /\ scanned' = 0
             /\ mpc' = IF monitored' < 2 THEN "sleep" ELSE "scan"
    /\ UNCHANGED <<running, mfetch, stop_calls, create_calls, alerts>>
    /\ UNCHANGED <<csv_file, scalerVars, registryVars>>

\* lines 80-85: one iteration of the for loop
FetchCpu ==
    /\ mpc = "scan"
    /\ \E o \in MetricOutcomes :
        /\ mfetch' = get_cpu_util(o)
        /\ IF mfetch'.raised
           THEN Handler /\ UNCHANGED scanned
           ELSE IF MonitorBreach(mfetch'.value)
                THEN mpc' = "stop" /\ UNCHANGED scanned
                ELSE /\ scanned' = scanned + 1
                     /\ mpc' = IF scanned' = monitored THEN "sleep" ELSE "scan"
    /\ UNCHANGED <<running, monitored, stop_calls, create_calls, alerts>>
    /\ UNCHANGED <<csv_file, scalerVars, registryVars>>

\* lines 88-89: i.stop() for each monitored instance; the k-th call may raise
StopInstances ==
    /\ mpc = "stop"
    /\ \E stopped \in 0..monitored :
        /\ stop_calls' = stop_calls + stopped
        /\ running' = running - stopped
        /\ IF stopped < monitored THEN Handler ELSE mpc' = "wait_stopped"
    /\ UNCHANGED <<monitored, scanned, mfetch, create_calls, alerts>>
    /\ UNCHANGED <<csv_file, scalerVars, registryVars>>

\* lines 91-94
WaitStopped ==
    /\ mpc = "wait_stopped"
    /\ \E raises \in BOOLEAN :
        IF raises THEN Handler ELSE mpc' = "create"
    /\ UNCHANGED <<running, monitored, scanned, mfetch, stop_calls, create_calls, alerts>>
    /\ UNCHANGED <<csv_file, scalerVars, registryVars>>

\* lines 97-103: two replacements are requested
CreateInstances ==
    /\ mpc = "create"
    /\ create_calls < MaxCreates
    /\ \E raises \in BOOLEAN :
        IF raises
        THEN Handler /\ UNCHANGED <<running, create_calls>>
        ELSE /\ create_calls' = create_calls + 1
             /\ running' = running + 2
             /\ mpc' = "launch"
    /\ UNCHANGED <<monitored, scanned, mfetch, stop_calls, alerts>>
    /\ UNCHANGED <<csv_file, scalerVars, registryVars>>

\* lines 105-110: wait_until_running and create_tags for each replacement
AwaitReplacements ==
    /\ mpc = "launch"
    /\ \E raises \in BOOLEAN :
        IF raises THEN Handler ELSE mpc' = "alert"
    /\ UNCHANGED <<running, monitored, scanned, mfetch, stop_calls, create_calls, alerts>>
    /\ UNCHANGED <<csv_file, scalerVars, registryVars>>

\* lines 112-119: send_alert, then return
SendAlert ==
    /\ mpc = "alert"
    /\ \E raises \in BOOLEAN :
        IF raises
        THEN Handler /\ UNCHANGED alerts
        ELSE alerts' = alerts + 1 /\ mpc' = "exited"
    /\ UNCHANGED <<running, monitored, scanned, mfetch, stop_calls, create_calls>>
    /\ UNCHANGED <<csv_file, scalerVars, registryVars>>

\* lines 77, 121 and 125: time.sleep(MONITOR_INTERVAL), then the next cycle
MonitorSleep ==
    /\ mpc = "sleep"
    /\ mpc' = "select"
    /\ UNCHANGED <<running, monitored, scanned, mfetch, stop_calls, create_calls, alerts>>
    /\ UNCHANGED <<csv_file, scalerVars, registryVars>>

MonitorNext ==
    \/ Select
    \/ FetchCpu
    \/ StopInstances
    \/ WaitStopped
    \/ CreateInstances
    \/ AwaitReplacements
    \/ SendAlert
    \/ MonitorSleep

SpecMonitor == MonitorInit /\ [][MonitorNext]_vars

(***************************************************************************)
(* Properties                                                              *)
(***************************************************************************)
\* the row append_instance_registry writes for (name, ip), as read back
RegistryRow(name, ip) ==
    [name |-> name, ip |-> ip, username |-> SSH_USER, password |-> SSH_PASS]

\* C1: in a poll cycle whose registry load returned MAX_INSTANCES entries or
\* more, the controller only sleeps: no metric is fetched, provision_instance
\* is not called and nothing is being appended to the registry.
C1_NoScalingAtCap ==
    Len(instances) >= MAX_INSTANCES =>
        /\ pc \in {"load", "sleep"}
        /\ fetched = <<>>
        /\ cycle_calls = 0

\* C1 witness: the registry grew to the cap by the controller's own scaling
\* and the following cycle loaded it
C1_Witness ==
    /\ pc = "sleep"
    /\ Len(instances) = MAX_INSTANCES
    /\ Len(requested) >= 1
    /\ restarts = 0

\* C2: every provision_instance call is decided at a clock reading at least
\* POLL_INTERVAL after the last_scale_time recorded by the previous scaling
\* action; a breach detected inside that window is not provisioned.
C2_Cooldown ==
    (pc \in {"provision", "append"} \/ cycle_calls > 0) => ~in_window

\* C2 witness: after a scaling action a second breach was detected inside the
\* cooldown window and the cycle ended without provisioning
C2_Witness ==
    /\ pc = "sleep"
    /\ scale_required
    /\ in_window
    /\ cycle_calls = 0
    /\ last_scale_time > 0
    /\ Len(requested) >= 1

\* C3: after N >= 1 calls of append_instance_registry on a registry file that
\* was missing, empty, or held a header and rows, the file is the header line,
\* the rows it held and the N appended rows in order, with no other line, and
\* its last line is terminated.
C3_RegistryStructure ==
    Len(appended) >= 1 =>
        LET old == IF initial_file.exists THEN Lines(initial_file.data) ELSE <<>>
            oldRows == IF old = <<>> THEN <<>> ELSE Tail(old)
            newRows == [i \in 1..Len(appended) |->
                            <<appended[i][1], appended[i][2], SSH_USER, SSH_PASS>>]
        IN /\ Lines(csv_file.data) = <<FIELDNAMES>> \o oldRows \o newRows
           /\ csv_file.data[Len(csv_file.data)].kind \in {"crlf", "lf"}

\* C4: a failed metric fetch returns 0 to its caller instead of raising, in
\* get_remote_cpu_percent and in get_cpu_util, and that 0 is no breach.
C4_FailOpen ==
    /\ \A i \in 1..Len(fetched) :
        fetched[i].outcome \in {"ssh_error", "no_match"} =>
            fetched[i].cpu = 0 /\ ~(fetched[i].cpu > CPU_THRESHOLD)
    /\ mfetch.outcome \in {"client_error", "no_datapoints"} =>
            /\ ~mfetch.raised
            /\ mfetch.value = 0
            /\ ~(mfetch.value >= MONITOR_CPU_THRESHOLD)

\* C5: a failure of provision_instance or of the registry read/append does
\* not end autoscale_controller.
C5_ControllerSurvives == pc # "terminated"

\* C6: a scale-out step calls provision_instance once, with index k+1 for a
\* registry of k entries, appends the row of the returned name and address
\* with the fixed credentials, resets last_scale_time, and the next cycle
\* loads the k old entries, unchanged and in order, followed by the new one.
C6_ScaleOutStep ==
    [][ /\ (pc = "append" /\ pc' = "sleep") =>
            /\ Len(instances) \in 1..(MAX_INSTANCES - 1)
            /\ cycle_calls = 1
            /\ pending[1] = INSTANCE_PREFIX \o ToString(Len(instances) + 1)
            /\ requested[Len(requested)] = pending[1]
            /\ read_instance_registry(csv_file') =
                    Append(instances, RegistryRow(pending[1], pending[2]))
            /\ last_scale_time' = now
        /\ (pc = "load" /\ cycle_calls = 1 /\ pc' # "terminated") =>
            instances' = Append(instances, RegistryRow(pending[1], pending[2]))
      ]_vars

\* C6 witness: the cycle after a scale-out has loaded the grown registry
C6_Witness ==
    /\ pc \in {"scan", "decide"}
    /\ last_scale_time > 0
    /\ cycle_calls = 0
    /\ Len(instances) >= 2
    /\ instances[Len(instances)] = RegistryRow(pending[1], pending[2])
    /\ requested # <<>>
    /\ requested[Len(requested)] = pending[1]

\* C7: no two create_server requests carry the same instance name.
C7_UniqueNames ==
    \A i, j \in 1..Len(requested) : i < j => requested[i] # requested[j]

\* C8: within a cycle the instances are fetched one at a time in registry
\* order; only the last fetch of a cycle can be a breach, a reading equal to
\* CPU_THRESHOLD is none, and without a breach every instance is fetched.
C8_EarlyExit ==
    /\ Len(fetched) <= Len(instances)
    /\ \A i \in 1..Len(fetched) : fetched[i].name = instances[i]["name"]
    /\ \A i \in 1..(Len(fetched) - 1) : fetched[i].cpu <= CPU_THRESHOLD
    /\ pc \in {"scan", "decide", "provision", "append"} =>
        /\ scale_required <=>
            (fetched # <<>> /\ fetched[Len(fetched)].cpu > CPU_THRESHOLD)
        /\ (pc # "scan" /\ ~scale_required) => Len(fetched) = Len(instances)
        /\ pc = "scan" => Len(fetched) < Len(instances)

\* C8 witness: a reading equal to the threshold was passed over, the next
\* instance breached and the third was never fetched
C8_Witness ==
    /\ pc = "sleep"
    /\ Len(instances) = 3
    /\ Len(fetched) = 2
    /\ fetched[1].cpu = CPU_THRESHOLD
    /\ fetched[2].cpu > CPU_THRESHOLD
    /\ scale_required

\* C9: the monitor carries out the stop-and-replace remediation at most once,
\* and stops or creates nothing in a cycle that found fewer than two running
\* instances.
C9_ReactsOnce ==
    /\ create_calls <= 1
    /\ monitored < 2 => mpc \notin {"stop", "wait_stopped", "create", "launch", "alert"}

\* C10: with an empty registry no metric is fetched, scale_required stays
\* False, provision_instance is not called, and the registry stays empty.
C10_EmptyRegistryDead ==
    /\ [](/\ (pc \notin {"load", "terminated"} /\ instances = <<>>) =>
                /\ pc \in {"decide", "sleep"}
                /\ fetched = <<>>
                /\ ~scale_required
                /\ cycle_calls = 0)
    /\ [][ read_instance_registry(csv_file) = <<>> =>
                /\ read_instance_registry(csv_file') = <<>>
                /\ requested' = requested ]_vars

\* C10 witness: a later cycle finds the registry still empty
C10_Witness ==
    /\ pc = "sleep"
    /\ instances = <<>>
    /\ read_instance_registry(csv_file) = <<>>
    /\ now >= StartTime + POLL_INTERVAL

====
